---- MODULE Spec2Model ----
(***************************************************************************)
(* A model of google.appengine.api.modules (modules.py): identity          *)
(* resolution from the process environment, the translation of HTTP        *)
(* failures into the module's error kinds, default-version selection, and  *)
(* the threaded handle behind the asynchronous mutating operations.        *)
(*                                                                         *)
(* Python values are modelled as follows.  A str is a sequence of          *)
(* one-character strings ("v3.4" is <<"v","3",".","4">>).  A value that    *)
(* may be None is a sequence of length at most one: None is <<>> and the   *)
(* value x is <<x>>.  An exception is a record naming its class.           *)
(***************************************************************************)
EXTENDS Integers, Sequences, FiniteSets, TLC

VARIABLES
  env,     \* os.environ: each variable's value, None when unset
  api,     \* the answer the remote Admin API gives to a request
  rpcs,    \* the _ThreadedRpc handles created so far
  caller,  \* where the calling thread is
  last     \* what the caller's most recent call did and gave

vars == <<env, api, rpcs, caller, last>>

(***************************************************************************)
(* Python values                                                           *)
(***************************************************************************)
None == <<>>

Some(x) == <<x>>

\* The truth value Python gives an optional str: None and "" are false.
Truthy(o) == o # None /\ o[1] # <<>>

\* a or b
PyOr(a, b) == IF Truthy(a) THEN a ELSE b

\* The code points of the characters that occur in version names.
Ord == ("-" :> 45) @@ ("." :> 46) @@ ("0" :> 48) @@ ("1" :> 49) @@ ("2" :> 50) @@ ("a" :> 97) @@ ("b" :> 98) @@ ("v" :> 118)

\* s < t on str: the first differing code point decides, a proper prefix is smaller.
RECURSIVE StrLess(_, _)
StrLess(s, t) ==
  IF t = <<>> THEN FALSE
  ELSE IF s = <<>> THEN TRUE
  ELSE IF Ord[Head(s)] # Ord[Head(t)] THEN Ord[Head(s)] < Ord[Head(t)]
  ELSE StrLess(Tail(s), Tail(t))

\* The index of the first occurrence of character c in s, 0 when there is none.
RECURSIVE Find(_, _)
Find(s, c) ==
  IF s = <<>> THEN 0
  ELSE IF Head(s) = c THEN 1
  ELSE LET r == Find(Tail(s), c) IN IF r = 0 THEN 0 ELSE r + 1

\* s.split(c)[0]
SplitFirst(s, c) == IF Find(s, c) = 0 THEN s ELSE SubSeq(s, 1, Find(s, c) - 1)

\* s.split(c, 1): one piece when c does not occur, else the two around its first occurrence.
SplitOnce(s, c) ==
  IF Find(s, c) = 0 THEN <<s>>
  ELSE <<SubSeq(s, 1, Find(s, c) - 1), SubSeq(s, Find(s, c) + 1, Len(s))>>

(***************************************************************************)
(* Outcomes of a call: it returns a value or raises an exception           *)
(***************************************************************************)
NoError == [type |-> "", name |-> None, status |-> 0]

\* An exception of class type; name is the name its message quotes (or None),
\* status the status of the HttpError it wraps (0 when it wraps none).
Exc(type, name, status) == [type |-> type, name |-> name, status |-> status]

Return(v) == [kind |-> "return", value |-> v, error |-> NoError]

Raise(e) == [kind |-> "raise", value |-> None, error |-> e]

\* The classes this module defines, all deriving from Error.
ModuleErrors == {"Error", "InvalidModuleError", "InvalidVersionError", "InvalidInstancesError", "UnexpectedStateError", "TransientError"}

(***************************************************************************)
(* The process environment and identity resolution                         *)
(***************************************************************************)
EnvVars == {"GAE_PROJECT", "GOOGLE_CLOUD_PROJECT", "GAE_APPLICATION", "GAE_SERVICE", "CURRENT_MODULE_ID", "GAE_VERSION", "CURRENT_VERSION_ID", "GAE_INSTANCE", "INSTANCE_ID"}

\* os.environ.get(name): None when the variable is unset.
EnvGet(e, name) == e[name]

\* os.environ.get(name, default)
EnvGetDefault(e, name, default) == IF e[name] = None THEN Some(default) ELSE e[name]

\* A variant that takes the primary variable whenever it is set, even when empty.
GetCurrentModuleNameSetWins(e) == Return(IF EnvGet(e, "GAE_SERVICE") # None THEN EnvGet(e, "GAE_SERVICE") ELSE EnvGet(e, "CURRENT_MODULE_ID"))

get_current_module_name(e) == Return(PyOr(EnvGet(e, "GAE_SERVICE"), EnvGet(e, "CURRENT_MODULE_ID")))

\* os.environ[name]: KeyError when the variable is unset.
EnvIndex(e, name) == IF e[name] = None THEN Raise(Exc("KeyError", Some(<<"k">>), 0)) ELSE Return(e[name])

get_current_version_name(e) ==
  IF Truthy(EnvGet(e, "GAE_VERSION")) THEN Return(EnvGet(e, "GAE_VERSION"))
  ELSE IF EnvIndex(e, "CURRENT_VERSION_ID").kind = "raise" THEN EnvIndex(e, "CURRENT_VERSION_ID")
  ELSE LET result == SplitFirst(EnvIndex(e, "CURRENT_VERSION_ID").value[1], ".")
       IN  Return(IF result = <<"N","o","n","e">> THEN None ELSE Some(result))

get_current_instance_id(e) == Return(PyOr(EnvGet(e, "GAE_INSTANCE"), EnvGet(e, "INSTANCE_ID")))

\* A request to the Admin API: the method, the resource it addresses, and for a
\* patch the update mask and the body.
Req(method, project, module, version, mask, body) == [method |-> method, project |-> project, module |-> module, version |-> version, mask |-> mask, body |-> body]

\* What the remote API answered: a 2xx status with the JSON body, or the status
\* of the HttpError that execute() raised.
Remote(status, body) == [status |-> status, body |-> body]

NoRemote == Remote(0, None)

\* The arguments of a call; an argument the operation does not take is None.
Args(instances, module, version) == [module |-> module, version |-> version, instances |-> instances]

NoArgs == Args(None, None, None)

\* The observation a call leaves: the operation, its arguments, the handle it
\* concerns (0 when none), the requests it issued, what the remote API
\* answered, and its outcome.
Obs(op, args, rpc, sent, remote, out) == [op |-> op, args |-> args, rpc |-> rpc, sent |-> sent, remote |-> remote, out |-> out]

NoCall == Obs("", NoArgs, 0, <<>>, NoRemote, Return(None))

Idle == [rpc |-> 0, pc |-> "idle"]

GetCurrentModuleName ==
  /\ caller = Idle
  /\ last' = Obs("get_current_module_name", NoArgs, 0, <<>>, NoRemote, get_current_module_name(env))
  /\ UNCHANGED <<env, api, rpcs, caller>>

GetCurrentVersionName ==
  /\ caller = Idle
  /\ last' = Obs("get_current_version_name", NoArgs, 0, <<>>, NoRemote, get_current_version_name(env))
  /\ UNCHANGED <<env, api, rpcs, caller>>

GetCurrentInstanceId ==
  /\ caller = Idle
  /\ last' = Obs("get_current_instance_id", NoArgs, 0, <<>>, NoRemote, get_current_instance_id(env))
  /\ UNCHANGED <<env, api, rpcs, caller>>

(***************************************************************************)
(* Environments                                                            *)
(***************************************************************************)
\* The environment the tests set up (modules_test.py setUp).
TestEnv == [v \in EnvVars |->
  CASE v = "GAE_APPLICATION" -> Some(<<"s","~","p">>)
    [] v = "GOOGLE_CLOUD_PROJECT" -> Some(<<"p">>)
    [] v = "GAE_SERVICE" -> Some(<<"d">>)
    [] v = "GAE_VERSION" -> Some(<<"v","1">>)
    [] v = "CURRENT_MODULE_ID" -> Some(<<"d">>)
    [] v = "CURRENT_VERSION_ID" -> Some(<<"v","1",".","3">>)
    [] OTHER -> None]

ServiceValues == {None, Some(<<>>), Some(<<"m","1">>)}

ModuleIdValues == {None, Some(<<>>), Some(<<"m","2">>)}

VersionValues == {None, Some(<<>>), Some(<<"v","2">>), Some(<<"N","o","n","e">>)}

VersionIdValues == {None, Some(<<>>), Some(<<"v","3",".","4">>), Some(<<"N","o","n","e",".","4">>), Some(<<"N","o","n","e">>), Some(<<"v","3">>), Some(<<"v","3",".","4",".","5">>), Some(<<".","4">>)}

InstanceValues == {None, Some(<<>>), Some(<<"i","1">>)}

InstanceIdValues == {None, Some(<<>>), Some(<<"i","2">>)}

\* Every combination of unset, empty and set identity variables.
InitIdentity ==
  /\ \E s \in ServiceValues, m \in ModuleIdValues, v \in VersionValues, c \in VersionIdValues, i \in InstanceValues, j \in InstanceIdValues :
       env = [TestEnv EXCEPT !["GAE_SERVICE"] = s, !["CURRENT_MODULE_ID"] = m, !["GAE_VERSION"] = v, !["CURRENT_VERSION_ID"] = c, !["GAE_INSTANCE"] = i, !["INSTANCE_ID"] = j]
  /\ api = NoRemote
  /\ rpcs = <<>>
  /\ caller = Idle
  /\ last = NoCall

NextIdentity ==
  \/ GetCurrentModuleName
  \/ GetCurrentVersionName
  \/ GetCurrentInstanceId

SpecIdentity == InitIdentity /\ [][NextIdentity]_vars

(***************************************************************************)
(* Translation of HTTP failures, and the project id                        *)
(***************************************************************************)
\* The statuses an HttpError of the remote API carries in the model.
FailStatuses == {400, 401, 403, 404, 409, 500, 503}

\* A variant that tests the server-error range before the client statuses
\* and takes everything from 400 up for it.
RaiseErrorServerFirst(status) ==
  IF status >= 400 THEN Exc("TransientError", None, status)
  ELSE Exc("Error", None, status)

\* _raise_error(e): the exception raised for an HttpError with this status.
RaiseError(status) ==
  IF status = 400 THEN Exc("InvalidInstancesError", None, status)
  ELSE IF status = 404 THEN Exc("InvalidVersionError", None, status)
  ELSE IF status >= 500 THEN Exc("TransientError", None, status)
  ELSE Exc("Error", None, status)

\* _get_project_id(): the project id, or the exception of a missing or
\* malformed GAE_APPLICATION (None.split, or index 1 of a one-piece split).
GetProjectId(e) ==
  LET project_id == PyOr(EnvGet(e, "GAE_PROJECT"), EnvGet(e, "GOOGLE_CLOUD_PROJECT"))
      app_id == EnvGet(e, "GAE_APPLICATION")
  IN  IF project_id # None THEN Return(project_id)
      ELSE IF app_id = None THEN Raise(Exc("AttributeError", None, 0))
      ELSE IF Len(SplitOnce(app_id[1], "~")) < 2 THEN Raise(Exc("IndexError", None, 0))
      ELSE Return(Some(SplitOnce(app_id[1], "~")[2]))

(***************************************************************************)
(* get_default_version                                                     *)
(***************************************************************************)
\* Weights are multiples of 1/WeightSteps: the weight w stands for
\* w / WeightSteps, so WeightSteps itself stands for 1.0.
WeightSteps == 4

One == WeightSteps

Weights == 0..WeightSteps

\* The largest number of versions in an allocation map.
MaxAllocs == 3

VersionNames == {<<"v","1">>, <<"v","1","0">>, <<"v","2">>, <<"b">>}

\* An allocation map in its iteration order: a sequence of <<version, weight>>
\* with distinct versions.
AllocMaps == {a \in UNION {[1..n -> VersionNames \X Weights] : n \in 0..MaxAllocs} : \A i, j \in DOMAIN a : a[i][1] = a[j][1] => i = j}

\* The JSON body of a response holds, each possibly absent, 'services',
\* 'versions', 'split', 'manualScaling' and 'defaultHostname'.  The body of a
\* service: no 'split', a 'split' without 'allocations', or a 'split' with an
\* allocation map.
ServiceBody(split) == [split |-> split, services |-> None, versions |-> None, manualScaling |-> None, defaultHostname |-> None]

NoSplit == ServiceBody(None)

SplitNoAllocations == ServiceBody(Some(None))

SplitOf(a) == ServiceBody(Some(Some(a)))

\* response.get('split', {}).get('allocations')
AllocationsOf(body) == IF body.split = None THEN None ELSE body.split[1]

\* The loop's variables before the first entry.
SelectStart == [error |-> NoError, retVersion |-> None, maxAlloc |-> 0 - WeightSteps, stop |-> FALSE]

\* A variant whose 1.0 branch leaves the loop without recording the version.
SelectStepBreakOnly(st, version, allocation) ==
  IF allocation = One THEN [st EXCEPT !.stop = TRUE]
  ELSE IF allocation > st.maxAlloc THEN [st EXCEPT !.retVersion = Some(version), !.maxAlloc = allocation]
  ELSE IF allocation = st.maxAlloc THEN
    IF st.retVersion = None THEN [st EXCEPT !.stop = TRUE, !.error = Exc("TypeError", None, 0)]
    ELSE IF StrLess(version, st.retVersion[1]) THEN [st EXCEPT !.retVersion = Some(version)]
    ELSE st
  ELSE st

\* A variant without the tie-break on equal weights.
SelectStepNoTieBreak(st, version, allocation) ==
  IF allocation = One THEN [st EXCEPT !.retVersion = Some(version), !.stop = TRUE]
  ELSE IF allocation > st.maxAlloc THEN [st EXCEPT !.retVersion = Some(version), !.maxAlloc = allocation]
  ELSE st

\* A variant that on equal weights takes the version iterated last.
SelectStepLastOfTies(st, version, allocation) ==
  IF allocation = One THEN [st EXCEPT !.retVersion = Some(version), !.stop = TRUE]
  ELSE IF allocation >= st.maxAlloc THEN [st EXCEPT !.retVersion = Some(version), !.maxAlloc = allocation]
  ELSE st

\* One iteration of the loop over allocations.items().
SelectStep(st, version, allocation) ==
  IF allocation = One THEN [st EXCEPT !.retVersion = Some(version), !.stop = TRUE]
  ELSE IF allocation > st.maxAlloc THEN [st EXCEPT !.retVersion = Some(version), !.maxAlloc = allocation]
  ELSE IF allocation = st.maxAlloc THEN
    IF st.retVersion = None THEN [st EXCEPT !.stop = TRUE, !.error = Exc("TypeError", None, 0)]
    ELSE IF StrLess(version, st.retVersion[1]) THEN [st EXCEPT !.retVersion = Some(version)]
    ELSE st
  ELSE st

RECURSIVE SelectLoop(_, _)
SelectLoop(st, items) ==
  IF items = <<>> \/ st.stop THEN st
  ELSE SelectLoop(SelectStep(st, Head(items)[1], Head(items)[2]), Tail(items))

\* A variant that returns None instead of raising when no version was found.
SelectDefaultReturnsNone(module, body) ==
  LET allocations == AllocationsOf(body)
      st == IF allocations # None /\ allocations[1] # <<>> THEN SelectLoop(SelectStart, allocations[1]) ELSE SelectStart
  IN  IF st.error # NoError THEN Raise(st.error) ELSE Return(st.retVersion)

\* Lines 252-272: the default version of a service body, or InvalidVersionError.
SelectDefault(module, body) ==
  LET allocations == AllocationsOf(body)
      st == IF allocations # None /\ allocations[1] # <<>> THEN SelectLoop(SelectStart, allocations[1]) ELSE SelectStart
  IN  IF st.error # NoError THEN Raise(st.error)
      ELSE IF st.retVersion = None THEN Raise(Exc("InvalidVersionError", Some(module), 0))
      ELSE Return(st.retVersion)

\* if not module: module = os.environ.get('GAE_SERVICE', 'default')
ModuleOrService(e, module) == IF Truthy(module) THEN module ELSE EnvGetDefault(e, "GAE_SERVICE", <<"d","e","f","a","u","l","t">>)

\* get_default_version(module) when the remote API answers remote.
get_default_version(e, module, remote) ==
  LET m == ModuleOrService(e, module)
      project == GetProjectId(e)
      request == Req("services.get", project.value, m, None, None, None)
      args == Args(None, module, None)
  IN  IF project.kind = "raise" THEN Obs("get_default_version", args, 0, <<>>, NoRemote, project)
      ELSE IF remote.status = 404 THEN Obs("get_default_version", args, 0, <<request>>, remote, Raise(Exc("InvalidModuleError", m, 404)))
      ELSE IF remote.status \in FailStatuses THEN Obs("get_default_version", args, 0, <<request>>, remote, Raise(RaiseError(remote.status)))
      ELSE Obs("get_default_version", args, 0, <<request>>, remote, SelectDefault(m[1], remote.body))

GetDefaultVersion(module) ==
  /\ caller = Idle
  /\ last' = get_default_version(env, module, api)
  /\ UNCHANGED <<env, api, rpcs, caller>>

ModuleArgs == {None, Some(<<"f">>)}

ServiceBodies == {NoSplit, SplitNoAllocations} \cup {SplitOf(a) : a \in AllocMaps}

\* Every answer of the remote API to the service get: a body, or a failure.
InitDefault ==
  /\ env = TestEnv
  /\ api \in {Remote(200, body) : body \in ServiceBodies} \cup {Remote(status, None) : status \in FailStatuses}
  /\ rpcs = <<>>
  /\ caller = Idle
  /\ last = NoCall

NextDefault == \E module \in ModuleArgs : GetDefaultVersion(module)

SpecDefault == InitDefault /\ [][NextDefault]_vars

(***************************************************************************)
(* _ThreadedRpc: the handle of an asynchronous operation and its thread    *)
(***************************************************************************)
\* The largest number of handles alive at once.
MaxRpcs == 1

\* The classes `except Exception` catches.
ExceptionClasses == ModuleErrors \cup {"TypeError", "KeyError", "AttributeError", "IndexError"}

\* The body of a version patch: the fields it carries, None for one it lacks.
PatchBody(servingStatus, instances) == [instances |-> instances, servingStatus |-> servingStatus]

\* _ThreadedRpc(target=run_request) once __init__ has started the thread.  op
\* and args record the call that made the handle; request is the patch the
\* closure run_request holds; pc is where the thread is: "start" (before
\* target()), "except" (target raised, about to run the except clause),
\* "finally" (about to set done), "end" (thread over) or "died" (the thread
\* ended with an exception nothing caught).  raised is what target() raised.
NewRpc(op, args, request) == [op |-> op, args |-> args, sent |-> <<>>, pc |-> "start", request |-> request, answer |-> NoRemote, raised |-> NoError, exception |-> NoError, done |-> FALSE]

\* A variant in which done is set as soon as target() has failed, before the
\* except clause stores the exception.
RunRequestDoneBeforeCapture(rpc, remote) ==
  IF remote.status \in FailStatuses
  THEN [rpc EXCEPT !.sent = Append(rpc.sent, rpc.request), !.answer = remote, !.raised = RaiseError(remote.status), !.done = TRUE, !.pc = "except"]
  ELSE [rpc EXCEPT !.sent = Append(rpc.sent, rpc.request), !.answer = remote, !.pc = "finally"]

\* A variant whose thread resolves project, module and version when it runs,
\* from the environment as it is then.
RunRequestLateBinding(rpc, remote) ==
  LET module == IF rpc.args.module = None THEN get_current_module_name(env).value ELSE rpc.args.module
      version == IF rpc.args.version = None THEN get_current_version_name(env).value ELSE rpc.args.version
      request == [rpc.request EXCEPT !.project = GetProjectId(env).value, !.module = module, !.version = version]
  IN  IF remote.status \in FailStatuses
      THEN [rpc EXCEPT !.sent = Append(rpc.sent, request), !.answer = remote, !.raised = RaiseError(remote.status), !.pc = "except"]
      ELSE [rpc EXCEPT !.sent = Append(rpc.sent, request), !.answer = remote, !.pc = "finally"]

\* A variant that issues the patch a second time after a server error.
RunRequestRetrying(rpc, remote) ==
  IF remote.status >= 500
  THEN [rpc EXCEPT !.sent = rpc.sent \o <<rpc.request, rpc.request>>, !.answer = remote, !.raised = RaiseError(remote.status), !.pc = "except"]
  ELSE IF remote.status \in FailStatuses
  THEN [rpc EXCEPT !.sent = Append(rpc.sent, rpc.request), !.answer = remote, !.raised = RaiseError(remote.status), !.pc = "except"]
  ELSE [rpc EXCEPT !.sent = Append(rpc.sent, rpc.request), !.answer = remote, !.pc = "finally"]

\* target(): run_request issues the patch; an HttpError is translated by
\* _raise_error and leaves run_request as the translated exception.
RunRequest(rpc, remote) ==
  IF remote.status \in FailStatuses
  THEN [rpc EXCEPT !.sent = Append(rpc.sent, rpc.request), !.answer = remote, !.raised = RaiseError(remote.status), !.pc = "except"]
  ELSE [rpc EXCEPT !.sent = Append(rpc.sent, rpc.request), !.answer = remote, !.pc = "finally"]

\* A variant whose except clause names TransientError only.
CaptureTransientOnly(rpc) ==
  IF rpc.raised.type = "TransientError" THEN [rpc EXCEPT !.exception = rpc.raised, !.pc = "finally"]
  ELSE [rpc EXCEPT !.pc = "finally"]

\* except Exception as e: self.exception = e
Capture(rpc) ==
  IF rpc.raised.type \in ExceptionClasses THEN [rpc EXCEPT !.exception = rpc.raised, !.pc = "finally"]
  ELSE [rpc EXCEPT !.pc = "finally"]

\* A variant that sets done at the end of the try block instead of in finally.
SetDoneOnSuccess(rpc) == [rpc EXCEPT !.done = (rpc.raised = NoError), !.pc = "end"]

\* finally: self.done.set(); an exception the except clause did not take
\* then leaves the thread.
SetDone(rpc) == [rpc EXCEPT !.done = TRUE, !.pc = IF rpc.raised # NoError /\ rpc.exception # rpc.raised THEN "died" ELSE "end"]

\* check_success(), then get_result's return None.
CheckSuccess(rpc) == IF rpc.exception # NoError THEN Raise(rpc.exception) ELSE Return(None)

ThreadRunTarget(i) ==
  /\ i \in DOMAIN rpcs
  /\ rpcs[i].pc = "start"
  /\ rpcs' = [rpcs EXCEPT ![i] = RunRequest(rpcs[i], api)]
  /\ UNCHANGED <<env, api, caller, last>>

ThreadCapture(i) ==
  /\ i \in DOMAIN rpcs
  /\ rpcs[i].pc = "except"
  /\ rpcs' = [rpcs EXCEPT ![i] = Capture(rpcs[i])]
  /\ UNCHANGED <<env, api, caller, last>>

ThreadSetDone(i) ==
  /\ i \in DOMAIN rpcs
  /\ rpcs[i].pc = "finally"
  /\ rpcs' = [rpcs EXCEPT ![i] = SetDone(rpcs[i])]
  /\ UNCHANGED <<env, api, caller, last>>

(***************************************************************************)
(* The mutating operations                                                 *)
(***************************************************************************)
\* An instances argument: a Python value with its type.
IntValue(n) == [type |-> "int", val |-> n]

IsIntegral(x) == x.type = "int"

\* The outcome of a call that has not come back yet.
Pending == [kind |-> "pending", value |-> None, error |-> NoError]

SyncOps == {"set_num_instances", "start_version", "stop_version"}

\* The asynchronous function behind each operation name.
AsyncOf(op) ==
  CASE op \in {"set_num_instances", "set_num_instances_async"} -> "set_num_instances_async"
    [] op \in {"start_version", "start_version_async"} -> "start_version_async"
    [] op \in {"stop_version", "stop_version_async"} -> "stop_version_async"

\* if module is None: module = get_current_module_name()
ModuleOrCurrent(e, module) == IF module = None THEN get_current_module_name(e) ELSE Return(module)

\* if version is None: version = get_current_version_name()
VersionOrCurrent(e, version) == IF version = None THEN get_current_version_name(e) ELSE Return(version)

\* A variant that validates nothing.
SetNumInstancesAsyncUnchecked(e, args) ==
  LET project == GetProjectId(e)
      module == ModuleOrCurrent(e, args.module)
      version == VersionOrCurrent(e, args.version)
  IN  IF project.kind = "raise" THEN project
      ELSE IF version.kind = "raise" THEN version
      ELSE Return(Some(NewRpc("set_num_instances_async", args, Req("versions.patch", project.value, module.value, version.value, "manualScaling.instances", PatchBody(None, args.instances)))))

\* set_num_instances_async: the handle it returns, or what it raises.
set_num_instances_async(e, args) ==
  LET project == GetProjectId(e)
      module == ModuleOrCurrent(e, args.module)
      version == VersionOrCurrent(e, args.version)
  IN  IF ~IsIntegral(args.instances[1]) THEN Raise(Exc("TypeError", None, 0))
      ELSE IF project.kind = "raise" THEN project
      ELSE IF version.kind = "raise" THEN version
      ELSE Return(Some(NewRpc("set_num_instances_async", args, Req("versions.patch", project.value, module.value, version.value, "manualScaling.instances", PatchBody(None, args.instances)))))

\* A variant whose patch also names and carries an instance count.
ServingStatusAsyncBothFields(e, op, args, status) ==
  LET module == ModuleOrCurrent(e, args.module)
      version == VersionOrCurrent(e, args.version)
      project == GetProjectId(e)
  IN  IF version.kind = "raise" THEN version
      ELSE IF project.kind = "raise" THEN project
      ELSE Return(Some(NewRpc(op, args, Req("versions.patch", project.value, module.value, version.value, "manualScaling.instances,servingStatus", PatchBody(Some(status), Some(IntValue(0)))))))

\* start_version_async and stop_version_async, which differ in the status sent.
ServingStatusAsync(e, op, args, status) ==
  LET module == ModuleOrCurrent(e, args.module)
      version == VersionOrCurrent(e, args.version)
      project == GetProjectId(e)
  IN  IF version.kind = "raise" THEN version
      ELSE IF project.kind = "raise" THEN project
      ELSE Return(Some(NewRpc(op, args, Req("versions.patch", project.value, module.value, version.value, "servingStatus", PatchBody(Some(status), None)))))

start_version_async(e, args) == ServingStatusAsync(e, "start_version_async", args, "SERVING")

stop_version_async(e, args) == ServingStatusAsync(e, "stop_version_async", args, "STOPPED")

\* The asynchronous function op applied to args.
AsyncCall(e, op, args) ==
  CASE op = "set_num_instances_async" -> set_num_instances_async(e, args)
    [] op = "start_version_async" -> start_version_async(e, args)
    [] op = "stop_version_async" -> stop_version_async(e, args)

\* The caller calls an asynchronous form: it gets the handle, whose thread has
\* been started, or the exception.
CallAsync(op, args) ==
  /\ caller = Idle
  /\ Len(rpcs) < MaxRpcs
  /\ LET r == AsyncCall(env, op, args)
     IN  IF r.kind = "raise"
         THEN /\ last' = Obs(op, args, 0, <<>>, NoRemote, r)
              /\ UNCHANGED rpcs
         ELSE /\ rpcs' = Append(rpcs, r.value[1])
              /\ last' = Obs(op, args, Len(rpcs) + 1, <<>>, NoRemote, Return(Some(Len(rpcs) + 1)))
  /\ UNCHANGED <<env, api, caller>>

\* A variant of the synchronous forms that returns without rpc.get_result().
CallSyncNoResult(op, args) ==
  /\ caller = Idle
  /\ Len(rpcs) < MaxRpcs
  /\ LET r == AsyncCall(env, AsyncOf(op), args)
     IN  IF r.kind = "raise"
         THEN /\ last' = Obs(op, args, 0, <<>>, NoRemote, r)
              /\ UNCHANGED rpcs
         ELSE /\ rpcs' = Append(rpcs, r.value[1])
              /\ last' = Obs(op, args, Len(rpcs) + 1, <<>>, NoRemote, Return(None))
  /\ UNCHANGED <<env, api, caller>>

\* The caller calls a synchronous form: rpc = <op>_async(...), then
\* rpc.get_result(), in which it blocks until the handle is done.
CallSync(op, args) ==
  /\ caller = Idle
  /\ Len(rpcs) < MaxRpcs
  /\ LET r == AsyncCall(env, AsyncOf(op), args)
     IN  IF r.kind = "raise"
         THEN /\ last' = Obs(op, args, 0, <<>>, NoRemote, r)
              /\ UNCHANGED <<rpcs, caller>>
         ELSE /\ rpcs' = Append(rpcs, r.value[1])
              /\ caller' = [rpc |-> Len(rpcs) + 1, pc |-> "wait"]
              /\ last' = Obs(op, args, Len(rpcs) + 1, <<>>, NoRemote, Pending)
  /\ UNCHANGED <<env, api>>

SetNumInstancesAsync(instances, module, version) == CallAsync("set_num_instances_async", Args(Some(instances), module, version))

StartVersionAsync(module, version) == CallAsync("start_version_async", Args(None, module, version))

StopVersionAsync(module, version) == CallAsync("stop_version_async", Args(None, module, version))

SetNumInstances(instances, module, version) == CallSync("set_num_instances", Args(Some(instances), module, version))

StartVersion(module, version) == CallSync("start_version", Args(None, module, version))

StopVersion(module, version) == CallSync("stop_version", Args(None, module, version))

\* The caller calls rpc.wait() on handle i.
Wait(i) ==
  /\ caller = Idle
  /\ i \in DOMAIN rpcs
  /\ caller' = [rpc |-> i, pc |-> "wait"]
  /\ last' = Obs("wait", rpcs[i].args, i, <<>>, NoRemote, Pending)
  /\ UNCHANGED <<env, api, rpcs>>

\* The caller calls rpc.get_result() on handle i.
GetResult(i) ==
  /\ caller = Idle
  /\ i \in DOMAIN rpcs
  /\ caller' = [rpc |-> i, pc |-> "wait"]
  /\ last' = Obs("get_result", rpcs[i].args, i, <<>>, NoRemote, Pending)
  /\ UNCHANGED <<env, api, rpcs>>

\* self.done.wait() returns once done is set.  wait() then returns;
\* get_result() goes on to check_success(); a synchronous form does the same
\* and returns, which drops its handle.
WaitReturns ==
  /\ caller.pc = "wait"
  /\ rpcs[caller.rpc].done
  /\ caller' = Idle
  /\ last' = [last EXCEPT !.sent = rpcs[caller.rpc].sent, !.remote = rpcs[caller.rpc].answer, !.out = IF last.op = "wait" THEN Return(None) ELSE CheckSuccess(rpcs[caller.rpc])]
  /\ rpcs' = IF last.op \in SyncOps THEN SubSeq(rpcs, 1, Len(rpcs) - 1) ELSE rpcs
  /\ UNCHANGED <<env, api>>

(***************************************************************************)
(* Synchronous and asynchronous mutating operations with their handles     *)
(***************************************************************************)
\* An environment with the secondary variables only.
FallbackEnv == [v \in EnvVars |->
  CASE v = "GAE_APPLICATION" -> Some(<<"s","~","p">>)
    [] v = "CURRENT_MODULE_ID" -> Some(<<"m","2">>)
    [] v = "CURRENT_VERSION_ID" -> Some(<<"v","3",".","4">>)
    [] OTHER -> None]

\* An environment with no variable set.
EmptyEnv == [v \in EnvVars |-> None]

EnvProfiles == {TestEnv, FallbackEnv, EmptyEnv}

VersionArgs == {None, Some(<<"v","b">>)}

InstancesArgs == {IntValue(2), [type |-> "str", val |-> 0], [type |-> "float", val |-> 2]}

\* The answers of the remote API to a version patch.
PatchAnswers == {Remote(200, None)} \cup {Remote(status, None) : status \in FailStatuses}

InitAsync ==
  /\ env \in EnvProfiles
  /\ api \in PatchAnswers
  /\ rpcs = <<>>
  /\ caller = Idle
  /\ last = NoCall

NextAsync ==
  \/ \E instances \in InstancesArgs, module \in ModuleArgs, version \in VersionArgs : SetNumInstancesAsync(instances, module, version)
  \/ \E module \in ModuleArgs, version \in VersionArgs : StartVersionAsync(module, version)
  \/ \E module \in ModuleArgs, version \in VersionArgs : StopVersionAsync(module, version)
  \/ \E instances \in InstancesArgs, module \in ModuleArgs, version \in VersionArgs : SetNumInstances(instances, module, version)
  \/ \E module \in ModuleArgs, version \in VersionArgs : StartVersion(module, version)
  \/ \E module \in ModuleArgs, version \in VersionArgs : StopVersion(module, version)
  \/ \E i \in 1..MaxRpcs : Wait(i)
  \/ \E i \in 1..MaxRpcs : GetResult(i)
  \/ WaitReturns
  \/ \E i \in 1..MaxRpcs : ThreadRunTarget(i)
  \/ \E i \in 1..MaxRpcs : ThreadCapture(i)
  \/ \E i \in 1..MaxRpcs : ThreadSetDone(i)

SpecAsync == InitAsync /\ [][NextAsync]_vars

\* The handles alone: the mutating operations called on the current module
\* and version in the test environment, for every answer of the remote API.
InitHandles ==
  /\ env = TestEnv
  /\ api \in PatchAnswers
  /\ rpcs = <<>>
  /\ caller = Idle
  /\ last = NoCall

NextHandles ==
  \/ \E instances \in InstancesArgs : SetNumInstancesAsync(instances, None, None)
  \/ StartVersionAsync(None, None)
  \/ StopVersionAsync(None, None)
  \/ \E instances \in InstancesArgs : SetNumInstances(instances, None, None)
  \/ StartVersion(None, None)
  \/ StopVersion(None, None)
  \/ \E i \in 1..MaxRpcs : Wait(i)
  \/ \E i \in 1..MaxRpcs : GetResult(i)
  \/ WaitReturns
  \/ \E i \in 1..MaxRpcs : ThreadRunTarget(i)
  \/ \E i \in 1..MaxRpcs : ThreadCapture(i)
  \/ \E i \in 1..MaxRpcs : ThreadSetDone(i)

\* Under fair scheduling: a started thread keeps being scheduled until it
\* ends, execute() comes back with an answer or a failure, and Event.wait()
\* returns once the event is set.
SpecHandlesFair ==
  /\ InitHandles /\ [][NextHandles]_vars
  /\ \A i \in 1..MaxRpcs : WF_vars(ThreadRunTarget(i)) /\ WF_vars(ThreadCapture(i)) /\ WF_vars(ThreadSetDone(i))
  /\ WF_vars(WaitReturns)

(***************************************************************************)
(* The asynchronous operations while the environment changes               *)
(***************************************************************************)
\* Some other code of the process assigns os.environ[name] = value.
SetEnv(name, value) ==
  /\ env[name] # Some(value)
  /\ env' = [env EXCEPT ![name] = Some(value)]
  /\ UNCHANGED <<api, rpcs, caller, last>>

\* The variables that decide the project, the module and the version.
TargetVars == {"GOOGLE_CLOUD_PROJECT", "GAE_SERVICE", "GAE_VERSION"}

InitEnvChange ==
  /\ env = TestEnv
  /\ api \in {Remote(200, None), Remote(404, None)}
  /\ rpcs = <<>>
  /\ caller = Idle
  /\ last = NoCall

NextEnvChange ==
  \/ \E module \in ModuleArgs : SetNumInstancesAsync(IntValue(2), module, None)
  \/ \E version \in VersionArgs : StartVersionAsync(None, version)
  \/ StopVersionAsync(None, None)
  \/ \E i \in 1..MaxRpcs : GetResult(i)
  \/ WaitReturns
  \/ \E i \in 1..MaxRpcs : ThreadRunTarget(i)
  \/ \E i \in 1..MaxRpcs : ThreadCapture(i)
  \/ \E i \in 1..MaxRpcs : ThreadSetDone(i)
  \/ \E name \in TargetVars : SetEnv(name, <<"x">>)

SpecEnvChange == InitEnvChange /\ [][NextEnvChange]_vars

(***************************************************************************)
(* The read operations and the synchronous surface                         *)
(***************************************************************************)
\* response.get(key, []): the list under the key, empty when the key is absent.
ListOf(field) == IF field = None THEN <<>> ELSE field[1]

\* get_modules() when the remote API answers remote.
get_modules(e, remote) ==
  LET project == GetProjectId(e)
      request == Req("services.list", project.value, None, None, None, None)
  IN  IF project.kind = "raise" THEN Obs("get_modules", NoArgs, 0, <<>>, NoRemote, project)
      ELSE IF remote.status = 404 THEN Obs("get_modules", NoArgs, 0, <<request>>, remote, Raise(Exc("Error", project.value, 404)))
      ELSE IF remote.status \in FailStatuses THEN Obs("get_modules", NoArgs, 0, <<request>>, remote, Raise(RaiseError(remote.status)))
      ELSE Obs("get_modules", NoArgs, 0, <<request>>, remote, Return(Some(ListOf(remote.body.services))))

\* A variant of get_versions without its own 404 branch.
GetVersionsShared404(e, module, remote) ==
  LET m == ModuleOrService(e, module)
      project == GetProjectId(e)
      request == Req("versions.list", project.value, m, None, None, None)
      args == Args(None, module, None)
  IN  IF project.kind = "raise" THEN Obs("get_versions", args, 0, <<>>, NoRemote, project)
      ELSE IF remote.status \in FailStatuses THEN Obs("get_versions", args, 0, <<request>>, remote, Raise(RaiseError(remote.status)))
      ELSE Obs("get_versions", args, 0, <<request>>, remote, Return(Some(ListOf(remote.body.versions))))

\* get_versions(module) when the remote API answers remote.
get_versions(e, module, remote) ==
  LET m == ModuleOrService(e, module)
      project == GetProjectId(e)
      request == Req("versions.list", project.value, m, None, None, None)
      args == Args(None, module, None)
  IN  IF project.kind = "raise" THEN Obs("get_versions", args, 0, <<>>, NoRemote, project)
      ELSE IF remote.status = 404 THEN Obs("get_versions", args, 0, <<request>>, remote, Raise(Exc("InvalidModuleError", m, 404)))
      ELSE IF remote.status \in FailStatuses THEN Obs("get_versions", args, 0, <<request>>, remote, Raise(RaiseError(remote.status)))
      ELSE Obs("get_versions", args, 0, <<request>>, remote, Return(Some(ListOf(remote.body.versions))))

\* get_num_instances(module, version) when the remote API answers remote.
get_num_instances(e, module, version, remote) ==
  LET m == ModuleOrCurrent(e, module)
      v == VersionOrCurrent(e, version)
      project == GetProjectId(e)
      request == Req("versions.get", project.value, m.value, v.value, None, None)
      args == Args(None, module, version)
  IN  IF v.kind = "raise" THEN Obs("get_num_instances", args, 0, <<>>, NoRemote, v)
      ELSE IF project.kind = "raise" THEN Obs("get_num_instances", args, 0, <<>>, NoRemote, project)
      ELSE IF remote.status \in FailStatuses THEN Obs("get_num_instances", args, 0, <<request>>, remote, Raise(RaiseError(remote.status)))
      ELSE IF remote.body.manualScaling # None THEN Obs("get_num_instances", args, 0, <<request>>, remote, Return(remote.body.manualScaling[1]))
      ELSE Obs("get_num_instances", args, 0, <<request>>, remote, Return(Some(0)))

\* ".".join(parts) for a list of str that is not empty.
RECURSIVE Join(_)
Join(parts) == IF Len(parts) = 1 THEN Head(parts) ELSE Head(parts) \o <<".">> \o Join(Tail(parts))

\* A variant that appends the instance whenever it is not None.
ConstructHostnameNotNone(instance, version, module, default_hostname) ==
  LET hostname_parts == (IF instance # None THEN <<instance>> ELSE <<>>) \o <<version, module, default_hostname>>
  IN  IF \E i \in DOMAIN hostname_parts : hostname_parts[i] = None THEN Raise(Exc("TypeError", None, 0))
      ELSE Return(Some(Join([i \in DOMAIN hostname_parts |-> hostname_parts[i][1]])))

\* _construct_hostname: the parts are appended in order, the instance only when
\* it is truthy; join raises TypeError for a part that is None.
ConstructHostname(instance, version, module, default_hostname) ==
  LET hostname_parts == (IF Truthy(instance) THEN <<instance>> ELSE <<>>) \o <<version, module, default_hostname>>
  IN  IF \E i \in DOMAIN hostname_parts : hostname_parts[i] = None THEN Raise(Exc("TypeError", None, 0))
      ELSE Return(Some(Join([i \in DOMAIN hostname_parts |-> hostname_parts[i][1]])))

\* The arguments of get_hostname.
HostArgs(module, version, instance) == [module |-> module, version |-> version, instances |-> None, instance |-> instance]

\* get_hostname(module, version, instance) when the remote API answers remote:
\* execute() stands outside any try, so its HttpError reaches the caller.
get_hostname(e, module, version, instance, remote) ==
  LET m == ModuleOrCurrent(e, module)
      v == VersionOrCurrent(e, version)
      project == GetProjectId(e)
      request == Req("apps.get", project.value, None, None, None, None)
      args == HostArgs(module, version, instance)
  IN  IF v.kind = "raise" THEN Obs("get_hostname", args, 0, <<>>, NoRemote, v)
      ELSE IF project.kind = "raise" THEN Obs("get_hostname", args, 0, <<>>, NoRemote, project)
      ELSE IF remote.status \in FailStatuses THEN Obs("get_hostname", args, 0, <<request>>, remote, Raise(Exc("HttpError", None, remote.status)))
      ELSE Obs("get_hostname", args, 0, <<request>>, remote, ConstructHostname(instance, v.value, m.value, remote.body.defaultHostname))

GetModules ==
  /\ caller = Idle
  /\ last' = get_modules(env, api)
  /\ UNCHANGED <<env, api, rpcs, caller>>

GetVersions(module) ==
  /\ caller = Idle
  /\ last' = get_versions(env, module, api)
  /\ UNCHANGED <<env, api, rpcs, caller>>

GetNumInstances(module, version) ==
  /\ caller = Idle
  /\ last' = get_num_instances(env, module, version, api)
  /\ UNCHANGED <<env, api, rpcs, caller>>

GetHostname(module, version, instance) ==
  /\ caller = Idle
  /\ last' = get_hostname(env, module, version, instance, api)
  /\ UNCHANGED <<env, api, rpcs, caller>>

InstanceArgs == {None, Some(<<>>), Some(<<"i">>), Some(<<"0">>)}

\* Bodies of successful answers: an empty one, and one with every field.
EmptyBody == [split |-> None, services |-> None, versions |-> None, manualScaling |-> None, defaultHostname |-> None]

FullBody == [split |-> Some(Some(<<(<<(<<"v","2">>), 2>>), (<<(<<"v","1">>), 2>>)>>)), services |-> Some(<<(<<"d">>), (<<"f">>)>>), versions |-> Some(<<(<<"v","1">>), (<<"v","2">>)>>), manualScaling |-> Some(Some(5)), defaultHostname |-> Some(<<"p",".","c">>)]

ApiAnswers == {Remote(200, EmptyBody), Remote(200, FullBody)} \cup {Remote(status, None) : status \in FailStatuses}

Init ==
  /\ env \in EnvProfiles
  /\ api \in ApiAnswers
  /\ rpcs = <<>>
  /\ caller = Idle
  /\ last = NoCall

\* Every operation in its synchronous form, and the threads of the handles
\* the mutating ones create.
Next ==
  \/ GetModules
  \/ \E module \in ModuleArgs : GetVersions(module)
  \/ \E module \in ModuleArgs : GetDefaultVersion(module)
  \/ \E module \in ModuleArgs, version \in VersionArgs : GetNumInstances(module, version)
  \/ \E module \in ModuleArgs, version \in VersionArgs, instance \in InstanceArgs : GetHostname(module, version, instance)
  \/ \E instances \in InstancesArgs, module \in ModuleArgs, version \in VersionArgs : SetNumInstances(instances, module, version)
  \/ \E module \in ModuleArgs, version \in VersionArgs : StartVersion(module, version)
  \/ \E module \in ModuleArgs, version \in VersionArgs : StopVersion(module, version)
  \/ WaitReturns
  \/ \E i \in 1..MaxRpcs : ThreadRunTarget(i)
  \/ \E i \in 1..MaxRpcs : ThreadCapture(i)
  \/ \E i \in 1..MaxRpcs : ThreadSetDone(i)

Spec == Init /\ [][Next]_vars

(***************************************************************************)
(* get_hostname over environments and application bodies                   *)
(***************************************************************************)
\* An environment whose composite version identifier reads 'None.4'.
NoVersionEnv == [FallbackEnv EXCEPT !["CURRENT_VERSION_ID"] = Some(<<"N","o","n","e",".","4">>)]

\* An environment whose primary service variable is empty.
EmptyServiceEnv == [TestEnv EXCEPT !["GAE_SERVICE"] = Some(<<>>)]

\* The body of an application: its 'defaultHostname', possibly absent.
AppBody(default_hostname) == [split |-> None, services |-> None, versions |-> None, manualScaling |-> None, defaultHostname |-> default_hostname]

DefaultHostnames == {None, Some(<<"h">>), Some(<<"p",".","c">>)}

InitHostname ==
  /\ env \in EnvProfiles \cup {NoVersionEnv, EmptyServiceEnv}
  /\ api \in {Remote(200, AppBody(h)) : h \in DefaultHostnames} \cup {Remote(status, None) : status \in FailStatuses}
  /\ rpcs = <<>>
  /\ caller = Idle
  /\ last = NoCall

NextHostname == \E module \in ModuleArgs, version \in VersionArgs, instance \in InstanceArgs : GetHostname(module, version, instance)

SpecHostname == InitHostname /\ [][NextHostname]_vars

(***************************************************************************)
(* Mutating operations and handles: claims                                 *)
(***************************************************************************)
\* The thread of a handle run to its end against the answer remote.
RunThread(rpc, remote) ==
  LET ran == RunRequest(rpc, remote)
  IN  SetDone(IF ran.pc = "except" THEN Capture(ran) ELSE ran)

\* What the caller sees of "rpc = <op>_async(args); rpc.get_result()" when
\* the remote API answers remote: the requests issued and the outcome.
AwaitAsync(asyncOp, args, remote) ==
  LET r == AsyncCall(env, asyncOp, args)
  IN  IF r.kind = "raise" THEN <<(<<>>), r>>
      ELSE <<RunThread(r.value[1], remote).sent, CheckSuccess(RunThread(r.value[1], remote))>>

\* C4: a synchronous mutating call that has come back issued the requests and
\* gave the outcome (nothing, or the error) that the asynchronous form followed
\* at once by get_result gives for the same arguments, environment and answer
\* of the remote API; and so did every get_result on an asynchronous handle.
C4_SyncIsAsyncThenGetResult ==
  /\ (last.op \in SyncOps /\ last.out # Pending) =>
       <<last.sent, last.out>> = AwaitAsync(AsyncOf(last.op), last.args, api)
  /\ (last.op = "get_result" /\ last.out # Pending) =>
       <<last.sent, last.out>> = AwaitAsync(rpcs[last.rpc].op, last.args, api)

\* stop_version() with no arguments came back with TransientError after its
\* one patch request was answered 503.
C4_Witness ==
  /\ last.op = "stop_version"
  /\ last.args = Args(None, None, None)
  /\ Len(last.sent) = 1
  /\ last.remote.status = 503
  /\ last.out.kind = "raise" /\ last.out.error.type = "TransientError"
  /\ caller = Idle

\* C5: no thread of a handle ends with an uncaught exception; once a handle
\* is done its exception field holds what the request raised (nothing when it
\* succeeded); and a get_result that has come back raised exactly that, or
\* returned None when the request raised nothing.
C5_FailureCapturedAndReraised ==
  /\ \A i \in DOMAIN rpcs :
       /\ rpcs[i].pc # "died"
       /\ rpcs[i].done => rpcs[i].exception = rpcs[i].raised
       /\ rpcs[i].pc # "start" => (rpcs[i].raised # NoError <=> rpcs[i].answer.status \in FailStatuses)
  /\ (last.op = "get_result" /\ last.out # Pending) =>
       last.out = IF rpcs[last.rpc].raised # NoError THEN Raise(rpcs[last.rpc].raised) ELSE Return(None)

\* get_result on an asynchronous handle raised the InvalidVersionError its
\* request had raised in the thread on a 404.
C5_Witness ==
  /\ last.op = "get_result"
  /\ last.rpc \in DOMAIN rpcs
  /\ rpcs[last.rpc].answer.status = 404
  /\ rpcs[last.rpc].pc = "end"
  /\ last.out.kind = "raise" /\ last.out.error = rpcs[last.rpc].raised
  /\ last.out.error.type = "InvalidVersionError"

\* The error kind the claim gives for a failed version patch; 404 is left to
\* the scope rule, any kind of the module.
PatchErrorKinds(status) ==
  IF status = 400 THEN {"InvalidInstancesError"}
  ELSE IF status >= 500 THEN {"TransientError"}
  ELSE IF status = 404 THEN ModuleErrors
  ELSE {"Error"}

\* C6: a version patch that failed with status 400 raised
\* InvalidInstancesError, with 500 or above TransientError, with any other
\* status but 404 the base Error itself; every failure raised one of the
\* module's kinds, in the thread and to the caller of the synchronous form.
C6_StatusToErrorKind ==
  /\ \A i \in DOMAIN rpcs :
       rpcs[i].answer.status \in FailStatuses => rpcs[i].raised.type \in PatchErrorKinds(rpcs[i].answer.status)
  /\ (last.op \in SyncOps \cup {"get_result"} /\ last.out # Pending /\ last.remote.status \in FailStatuses) =>
       /\ last.out.kind = "raise"
       /\ last.out.error.type \in PatchErrorKinds(last.remote.status)
       /\ last.out.error.status = last.remote.status

\* start_version came back with the base Error after a 409.
C6_Witness ==
  /\ last.op = "start_version"
  /\ last.remote.status = 409
  /\ last.out.kind = "raise" /\ last.out.error.type = "Error"

\* A call of set_num_instances or set_num_instances_async whose instances
\* argument is not integral.
NonIntegralCall(o) ==
  /\ o.op \in {"set_num_instances", "set_num_instances_async"}
  /\ o.args.instances # None
  /\ ~IsIntegral(o.args.instances[1])

\* C8: a step in which set_num_instances or set_num_instances_async is called
\* with a non-integral instances argument raises TypeError to the caller in
\* that step, creates no handle (so starts no thread), issues no request and
\* leaves the caller unblocked, in every environment.
C8_TypeErrorIsLocal ==
  [][(NonIntegralCall(last') /\ last' # last) =>
       /\ last'.out = Raise(Exc("TypeError", None, 0))
       /\ last'.rpc = 0 /\ last'.sent = <<>>
       /\ rpcs' = rpcs
       /\ caller' = Idle]_vars

\* set_num_instances_async raised TypeError for a str argument in the
\* environment with no variable set, and no handle exists.
C8_Witness ==
  /\ last.op = "set_num_instances_async"
  /\ last.args.instances = Some([type |-> "str", val |-> 0])
  /\ env = EmptyEnv
  /\ last.out = Raise(Exc("TypeError", None, 0))
  /\ rpcs = <<>>

\* How far the thread of a handle has come.
PcRank(pc) == CASE pc = "start" -> 0 [] pc = "except" -> 1 [] pc = "finally" -> 2 [] OTHER -> 3

\* C15: under fair scheduling every handle that exists eventually is done,
\* whether its request succeeded or failed, and every caller blocked in wait
\* or get_result eventually comes back; no step of the caller changes a
\* handle: a handle changes only by its thread moving on, and goes away only
\* after it is done.
C15_HandleCompletes ==
  /\ \A i \in 1..MaxRpcs : (Len(rpcs) >= i) ~> (Len(rpcs) < i \/ rpcs[i].done)
  /\ (caller.pc = "wait") ~> (caller = Idle)
  /\ [][\A i \in DOMAIN rpcs :
          /\ i \notin DOMAIN rpcs' => rpcs[i].done
          /\ (i \in DOMAIN rpcs' /\ rpcs'[i] # rpcs[i]) => (caller' = caller /\ PcRank(rpcs'[i].pc) > PcRank(rpcs[i].pc))]_vars

\* wait() on the handle of start_version_async came back after the handle's
\* request had failed with 500.
C15_Witness ==
  /\ last.op = "wait" /\ last.out = Return(None)
  /\ caller = Idle
  /\ last.rpc \in DOMAIN rpcs
  /\ rpcs[last.rpc].op = "start_version_async"
  /\ rpcs[last.rpc].answer.status = 500
  /\ rpcs[last.rpc].done

\* C16: a handle's thread issues at most one request, whatever the answer
\* (none before it has run, one after), and a mutating call that has come back
\* issued at most one; a request is issued only in the first step of a
\* handle's thread, so never by a step of the caller in wait or get_result.
C16_NoRetry ==
  /\ [](/\ \A i \in DOMAIN rpcs : Len(rpcs[i].sent) = (IF rpcs[i].pc = "start" THEN 0 ELSE 1)
        /\ last.op \in SyncOps \cup {"wait", "get_result"} => Len(last.sent) <= 1)
  /\ [][\A i \in DOMAIN rpcs :
          (i \in DOMAIN rpcs' /\ rpcs'[i].sent # rpcs[i].sent) => (rpcs[i].pc = "start" /\ caller' = caller /\ last' = last)]_vars

\* get_result on a handle raised TransientError after a 503, and the handle's
\* thread had issued its patch once.
C16_Witness ==
  /\ last.op = "get_result"
  /\ last.rpc \in DOMAIN rpcs
  /\ rpcs[last.rpc].answer.status = 503
  /\ last.out.kind = "raise" /\ last.out.error.type = "TransientError"
  /\ rpcs[last.rpc].sent = <<rpcs[last.rpc].request>>
  /\ last.sent = rpcs[last.rpc].sent

\* The exception a handle holds in the end for the answer its request got.
FinalException(answer) == IF answer.status \in FailStatuses THEN RaiseError(answer.status) ELSE NoError

\* C18: in every state where a handle's done is set, its request has been
\* issued and answered, its thread is past the except clause, and its
\* exception field holds the final value, which no later step changes; so a
\* get_result (or a synchronous form) that has come back returned None only
\* for a request that succeeded and raised for every request that failed.
C18_ExceptionRecordedBeforeDone ==
  /\ [](/\ \A i \in DOMAIN rpcs : rpcs[i].done =>
             /\ Len(rpcs[i].sent) = 1 /\ rpcs[i].answer # NoRemote
             /\ rpcs[i].pc \notin {"start", "except", "finally"}
             /\ rpcs[i].exception = FinalException(rpcs[i].answer)
        /\ (last.op \in SyncOps \cup {"get_result"} /\ last.out # Pending /\ last.sent # <<>>) =>
             (last.out.kind = "return" <=> last.remote.status \notin FailStatuses))
  /\ [][\A i \in DOMAIN rpcs : (rpcs[i].done /\ i \in DOMAIN rpcs') => rpcs'[i] = rpcs[i]]_vars

\* The caller is blocked in get_result while the handle's thread stands
\* between the except clause and finally: the exception is stored, done is
\* not yet set.
C18_Witness ==
  /\ last.op = "get_result" /\ caller.pc = "wait"
  /\ rpcs[caller.rpc].pc = "finally"
  /\ rpcs[caller.rpc].exception # NoError
  /\ ~rpcs[caller.rpc].done

\* The project, module and version a request addresses.
TargetOf(request) == <<request.project, request.module, request.version>>

\* The target the arguments resolve to in the environment e.
ResolvedTarget(e, args) == <<GetProjectId(e).value, ModuleOrCurrent(e, args.module).value, VersionOrCurrent(e, args.version).value>>

\* C19: the step in which an asynchronous call creates a handle fixes the
\* handle's request on the target its arguments resolve to in the environment
\* of that step; no later step changes the request, a change of the
\* environment included; and the step in which the thread issues its request
\* issues exactly that one, whatever the environment is by then.
C19_TargetFixedAtCall ==
  [][/\ Len(rpcs') = Len(rpcs) + 1 => TargetOf(rpcs'[Len(rpcs')].request) = ResolvedTarget(env, rpcs'[Len(rpcs')].args)
     /\ \A i \in DOMAIN rpcs : i \in DOMAIN rpcs' =>
          /\ rpcs'[i].request = rpcs[i].request
          /\ rpcs'[i].sent # rpcs[i].sent => rpcs'[i].sent = <<rpcs[i].request>>]_vars

\* stop_version_async() was called in the test environment; GAE_SERVICE and
\* GAE_VERSION have since been set to 'x'; the patch the thread issued
\* addresses module 'd' and version 'v1'.
C19_Witness ==
  /\ rpcs # <<>>
  /\ rpcs[1].op = "stop_version_async"
  /\ rpcs[1].args = Args(None, None, None)
  /\ env["GAE_SERVICE"] = Some(<<"x">>) /\ env["GAE_VERSION"] = Some(<<"x">>)
  /\ Len(rpcs[1].sent) = 1
  /\ TargetOf(rpcs[1].sent[1]) = <<Some(<<"p">>), Some(<<"d">>), Some(<<"v","1">>)>>
  /\ ResolvedTarget(env, rpcs[1].args) = <<Some(<<"p">>), Some(<<"x">>), Some(<<"x">>)>>

\* The mask and the body the claim gives for each mutating operation's patch.
PatchOf(op, args) ==
  CASE op = "set_num_instances_async" -> <<"manualScaling.instances", PatchBody(None, args.instances)>>
    [] op = "start_version_async" -> <<"servingStatus", PatchBody(Some("SERVING"), None)>>
    [] op = "stop_version_async" -> <<"servingStatus", PatchBody(Some("STOPPED"), None)>>

\* C14: the request of every handle is one versions.patch whose mask names
\* only the field the operation mutates and whose body carries only that field
\* (the instance count given, 'SERVING' for start, 'STOPPED' for stop); it
\* addresses the module and the version given as arguments, and every request
\* the handle's thread issued is that request.
C14_PatchNamesOnlyMutatedField ==
  \A i \in DOMAIN rpcs :
    /\ rpcs[i].request.method = "versions.patch"
    /\ <<rpcs[i].request.mask, rpcs[i].request.body>> = PatchOf(rpcs[i].op, rpcs[i].args)
    /\ rpcs[i].args.module # None => rpcs[i].request.module = rpcs[i].args.module
    /\ rpcs[i].args.version # None => rpcs[i].request.version = rpcs[i].args.version
    /\ \A k \in DOMAIN rpcs[i].sent : rpcs[i].sent[k] = rpcs[i].request

\* The thread of a stop_version_async(version='vb') handle has issued its
\* patch: mask 'servingStatus', body 'STOPPED' only, version 'vb'.
C14_Witness ==
  /\ rpcs # <<>>
  /\ rpcs[1].op = "stop_version_async"
  /\ rpcs[1].args.version = Some(<<"v","b">>)
  /\ Len(rpcs[1].sent) = 1
  /\ rpcs[1].sent[1].mask = "servingStatus"
  /\ rpcs[1].sent[1].body = PatchBody(Some("STOPPED"), None)
  /\ rpcs[1].sent[1].version = Some(<<"v","b">>)

(***************************************************************************)
(* The scope of a 404: claims                                              *)
(***************************************************************************)
\* A call that has come back after its request was answered 404.
NotFound(ops) == last.op \in ops /\ last.out # Pending /\ Len(last.sent) = 1 /\ last.remote.status = 404

\* C7: a 404 gives, on a service-scoped request (get_versions,
\* get_default_version), InvalidModuleError naming the module the request
\* addressed, which is the module argument when one was given; on a
\* version-scoped request (get_num_instances, set_num_instances,
\* start_version, stop_version) InvalidVersionError; on get_modules the base
\* Error itself, naming the project.
C7_NotFoundByScope ==
  /\ NotFound({"get_versions", "get_default_version"}) =>
       /\ last.out.kind = "raise"
       /\ last.out.error.type = "InvalidModuleError"
       /\ last.out.error.name = last.sent[1].module
       /\ Truthy(last.args.module) => last.out.error.name = last.args.module
  /\ NotFound({"get_num_instances"} \cup SyncOps) =>
       /\ last.out.kind = "raise"
       /\ last.out.error.type = "InvalidVersionError"
  /\ NotFound({"get_modules"}) =>
       /\ last.out.kind = "raise"
       /\ last.out.error.type = "Error"
       /\ last.out.error.name = last.sent[1].project

\* get_versions(module='f') raised InvalidModuleError naming 'f' on a 404.
C7_Witness ==
  /\ NotFound({"get_versions"})
  /\ last.args.module = Some(<<"f">>)
  /\ last.out.error = Exc("InvalidModuleError", Some(<<"f">>), 404)

(***************************************************************************)
(* get_default_version: claims                                             *)
(***************************************************************************)
\* get_default_version was called and the service get succeeded.
DefaultVersionAnswered == last.op = "get_default_version" /\ Len(last.sent) = 1 /\ api.status = 200

\* The entries of the answered allocation map, none when it is missing.
AnsweredAllocs == IF AllocationsOf(api.body) = None THEN <<>> ELSE AllocationsOf(api.body)[1]

HasFullWeight == \E i \in DOMAIN AnsweredAllocs : AnsweredAllocs[i][2] = One

\* C1: when the allocation map has an entry of weight exactly 1.0,
\* get_default_version returns the version of an entry of weight 1.0 (hence
\* that entry's version when it is the only one), whatever the other weights
\* and wherever the entry stands in the iteration order.
C1_FullWeightWins ==
  (DefaultVersionAnswered /\ HasFullWeight) =>
    /\ last.out.kind = "return"
    /\ last.out.value # None
    /\ \E i \in DOMAIN AnsweredAllocs : AnsweredAllocs[i][1] = last.out.value[1] /\ AnsweredAllocs[i][2] = One

\* The 1.0 entry came second, after an entry of positive weight had been
\* recorded as the running maximum, and its version was returned.
C1_Witness ==
  /\ DefaultVersionAnswered
  /\ Len(AnsweredAllocs) >= 2
  /\ AnsweredAllocs[1][2] > 0 /\ AnsweredAllocs[1][2] < One
  /\ AnsweredAllocs[2][2] = One
  /\ last.out = Return(Some(AnsweredAllocs[2][1]))

\* C2: for a non-empty allocation map with no weight equal to 1.0,
\* get_default_version returns a version of maximum weight, and every other
\* version of that weight has a lexicographically greater name, in every
\* iteration order.
C2_MaxWeightSmallestName ==
  (DefaultVersionAnswered /\ AnsweredAllocs # <<>> /\ ~HasFullWeight) =>
    /\ last.out.kind = "return"
    /\ last.out.value # None
    /\ \E i \in DOMAIN AnsweredAllocs :
         /\ AnsweredAllocs[i][1] = last.out.value[1]
         /\ \A j \in DOMAIN AnsweredAllocs :
              /\ AnsweredAllocs[j][2] <= AnsweredAllocs[i][2]
              /\ (AnsweredAllocs[j][2] = AnsweredAllocs[i][2] /\ j # i) => StrLess(AnsweredAllocs[i][1], AnsweredAllocs[j][1])

\* Two versions tie at the maximum below 1.0, the smaller name is iterated
\* second, and it is returned.
C2_Witness ==
  /\ DefaultVersionAnswered
  /\ Len(AnsweredAllocs) = 3
  /\ AnsweredAllocs[1][2] < AnsweredAllocs[2][2]
  /\ AnsweredAllocs[2][2] = AnsweredAllocs[3][2]
  /\ AnsweredAllocs[2][2] < One
  /\ AnsweredAllocs[2][1] = <<"v","2">> /\ AnsweredAllocs[3][1] = <<"v","1","0">>
  /\ last.out = Return(Some(<<"v","1","0">>))

\* C3: when the service get succeeds with no 'split', no 'allocations' or an
\* empty map, get_default_version raises InvalidVersionError; for every
\* non-empty map it returns a version name that is a key of the map.
C3_EmptyFailsNonEmptyReturnsKey ==
  DefaultVersionAnswered =>
    IF AnsweredAllocs = <<>>
    THEN last.out.kind = "raise" /\ last.out.error.type = "InvalidVersionError"
    ELSE /\ last.out.kind = "return"
         /\ last.out.value # None
         /\ \E i \in DOMAIN AnsweredAllocs : AnsweredAllocs[i][1] = last.out.value[1]

\* The service has a 'split' without 'allocations' and the call raised
\* InvalidVersionError.
C3_Witness ==
  /\ DefaultVersionAnswered
  /\ api.body = SplitNoAllocations
  /\ last.out.kind = "raise" /\ last.out.error.type = "InvalidVersionError"

\* What get_default_version gives when the answered entries are iterated in
\* the order p, a permutation of their positions.
DefaultInOrder(p) == SelectDefault(last.sent[1].module[1], SplitOf([i \in DOMAIN AnsweredAllocs |-> AnsweredAllocs[p[i]]]))

\* C17 as stated: for every non-empty allocation map with weights in [0,1],
\* every iteration order of the same entries gives the outcome that
\* get_default_version gave.
C17_OrderIndependent ==
  (DefaultVersionAnswered /\ AnsweredAllocs # <<>>) =>
    \A p \in Permutations(DOMAIN AnsweredAllocs) : DefaultInOrder(p) = last.out

\* C17 as amended: the same for every map in which at most one entry has
\* weight exactly 1.0.
C17_OrderIndependentOneFullWeight ==
  (DefaultVersionAnswered /\ AnsweredAllocs # <<>> /\ Cardinality({i \in DOMAIN AnsweredAllocs : AnsweredAllocs[i][2] = One}) <= 1) =>
    \A p \in Permutations(DOMAIN AnsweredAllocs) : DefaultInOrder(p) = last.out

\* 'v2' and 'b' tie at the maximum below 1.0 with a lighter entry between
\* them, and 'b' was returned, as it is when the three are iterated backwards.
C17_Witness ==
  /\ DefaultVersionAnswered
  /\ Len(AnsweredAllocs) = 3
  /\ AnsweredAllocs[1][1] = <<"v","2">> /\ AnsweredAllocs[3][1] = <<"b">>
  /\ AnsweredAllocs[1][2] = AnsweredAllocs[3][2] /\ AnsweredAllocs[1][2] < One
  /\ AnsweredAllocs[2][2] < AnsweredAllocs[1][2]
  /\ last.out = Return(Some(<<"b">>))
  /\ DefaultInOrder([i \in 1..3 |-> 4 - i]) = last.out

(***************************************************************************)
(* Identity resolution: claims                                             *)
(***************************************************************************)
IsIdentityGetter(op) == op \in {"get_current_module_name", "get_current_version_name", "get_current_instance_id"}

\* The value precedence gives when the primary variable wins whenever wins(primary).
ModuleByPrecedence(primaryWins) == IF primaryWins THEN env["GAE_SERVICE"] ELSE env["CURRENT_MODULE_ID"]

InstanceByPrecedence(primaryWins) == IF primaryWins THEN env["GAE_INSTANCE"] ELSE env["INSTANCE_ID"]

VersionFromComposite == IF SplitFirst(env["CURRENT_VERSION_ID"][1], ".") = <<"N","o","n","e">> THEN None ELSE Some(SplitFirst(env["CURRENT_VERSION_ID"][1], "."))

\* C9 as stated: each getter returns its primary variable whenever that is set,
\* else the value derived from the secondary one (for the version: the text
\* before the first '.', 'None' read as absent).
C9_SetPrimaryWins ==
  /\ last.op = "get_current_module_name" => last.out = Return(ModuleByPrecedence(env["GAE_SERVICE"] # None))
  /\ last.op = "get_current_instance_id" => last.out = Return(InstanceByPrecedence(env["GAE_INSTANCE"] # None))
  /\ (last.op = "get_current_version_name" /\ env["GAE_VERSION"] # None) => last.out = Return(env["GAE_VERSION"])
  /\ (last.op = "get_current_version_name" /\ env["GAE_VERSION"] = None /\ env["CURRENT_VERSION_ID"] # None) => last.out = Return(VersionFromComposite)

\* C9 as amended: a primary variable wins when it is set to a non-empty
\* string; an unset or empty primary gives the value of the secondary (for the
\* version: the text of the secondary before its first '.', 'None' read as
\* absent, when the secondary is set).
C9_NonEmptyPrimaryWins ==
  /\ last.op = "get_current_module_name" => last.out = Return(ModuleByPrecedence(env["GAE_SERVICE"] \notin {None, Some(<<>>)}))
  /\ last.op = "get_current_instance_id" => last.out = Return(InstanceByPrecedence(env["GAE_INSTANCE"] \notin {None, Some(<<>>)}))
  /\ (last.op = "get_current_version_name" /\ env["GAE_VERSION"] \notin {None, Some(<<>>)}) => last.out = Return(env["GAE_VERSION"])
  /\ (last.op = "get_current_version_name" /\ env["GAE_VERSION"] \in {None, Some(<<>>)} /\ env["CURRENT_VERSION_ID"] # None) => last.out = Return(VersionFromComposite)

\* The version getter fell back to a composite identifier that reads 'None.4'
\* although the primary variable was set (to the empty string).
C9_Witness ==
  /\ last.op = "get_current_version_name"
  /\ env["GAE_VERSION"] = Some(<<>>)
  /\ env["CURRENT_VERSION_ID"] = Some(<<"N","o","n","e",".","4">>)
  /\ last.out = Return(None)

\* C10 as stated: no identity getter raises, whatever the environment.
C10_GettersNeverRaise == IsIdentityGetter(last.op) => last.out.kind = "return"

(***************************************************************************)
(* Hostnames: claims                                                       *)
(***************************************************************************)
\* get_hostname was called and the application get succeeded.
HostnameAnswered == last.op = "get_hostname" /\ Len(last.sent) = 1 /\ last.remote.status = 200

\* The version and module segments the call resolved, and the default
\* hostname the application get gave.
VersionSegment == VersionOrCurrent(env, last.args.version).value

ModuleSegment == ModuleOrCurrent(env, last.args.module).value

HostSegment == last.remote.body.defaultHostname

\* An instance is present when it is a string that is not empty.
InstancePresent == last.args.instance \notin {None, Some(<<>>)}

\* version.module.default_hostname
BaseHostname == VersionSegment[1] \o <<".">> \o ModuleSegment[1] \o <<".">> \o HostSegment[1]

ReadOps == {"get_modules", "get_versions", "get_default_version", "get_num_instances", "get_hostname"}

\* A read that got as far as the remote API and whose request failed.
ReadFailed == last.op \in ReadOps /\ last.sent # <<>> /\ last.remote.status \in FailStatuses

\* C12 as stated: a read operation issues one request and no more (none only
\* when it failed before reaching the remote API), and when the request fails
\* the caller gets one of the module's error kinds: on a 404 any of them, on
\* every other status the kind the shared mapping gives.
C12_ReadsTranslateFailures ==
  /\ last.op \in ReadOps => (Len(last.sent) <= 1 /\ (last.out.kind = "return" => Len(last.sent) = 1))
  /\ ReadFailed =>
       /\ last.out.kind = "raise"
       /\ last.out.error.type \in ModuleErrors
       /\ last.remote.status # 404 => last.out.error.type = RaiseError(last.remote.status).type

\* C13 as stated: get_versions or get_default_version called without a module
\* addresses its request to the current module, the name
\* get_current_module_name gives in the same environment.
C13_NoModuleMeansCurrentModule ==
  (last.op \in {"get_versions", "get_default_version"} /\ last.args.module = None /\ Len(last.sent) = 1) =>
    last.sent[1].module = get_current_module_name(env).value

====
